---------------------------- MODULE Spec2Model ----------------------------
(***************************************************************************)
(* A model of the Hyperliquid MCP server: the configuration read from the  *)
(* environment, the remote client (unauthenticated /info queries, signed   *)
(* /exchange mutations), the tool handlers and the call-tool dispatcher.   *)
(*                                                                         *)
(* JavaScript values are modelled as follows.  An optional value is a      *)
(* tuple of length 0 or 1: <<>> is undefined, <<v>> is the value v.  An    *)
(* object built by the code is a record whose fields hold optional values; *)
(* JSON.stringify drops the fields holding undefined (JsonFlat).  A text   *)
(* built with a template literal is the tuple of its pieces: error texts   *)
(* are real strings, a payload piece is the payload printed by             *)
(* JSON.stringify, a formatted record is the tuple of the values printed.  *)
(***************************************************************************)
EXTENDS Integers, Sequences, FiniteSets, TLC

VARIABLES
    env,            \* process.env, read once by getConfig
    config,         \* HyperliquidClient.config
    baseURL,        \* the axios instance's baseURL
    wallet,         \* HyperliquidClient.wallet: <<>> or <<signing key>>
    configErrors,   \* what validateConfig returned, printed at startup
    phase,          \* "serving", or "crashed" when the constructor threw
    now,            \* Date.now(), in milliseconds
    calls,          \* the call-tool requests being served, by slot
    catalog         \* the answer to the host's list-tools request, if any

vars == <<env, config, baseURL, wallet, configErrors, phase, now, calls, catalog>>

(***************************************************************************)
(* Bounds of the model.                                                    *)
(***************************************************************************)
MaxCalls == 2       \* slots for calls the host has issued
MaxTime == 2        \* the clock runs from 0 to MaxTime
MaxFills == 21      \* the longest fill history the remote returns

CallIds == 1..MaxCalls

(***************************************************************************)
(* Optional values and JavaScript truthiness.                              *)
(***************************************************************************)
Undefined == <<>>

Some(v) == <<v>>

TruthyStr(o) == o # <<>> /\ o[1] # ""

TruthyNum(o) == o # <<>> /\ o[1] # 0

Null == "<null>"

\* x || null, for an optional string x
OrNull(o) == IF TruthyStr(o) THEN o[1] ELSE Null

\* x || y, for optional strings
OrElse(o, p) == IF TruthyStr(o) THEN o ELSE p

\* `${x}` of an optional string
Str(o) == IF o = Undefined THEN "undefined" ELSE o[1]

\* args.k of an arguments object
Arg(obj, k) == IF k \in DOMAIN obj THEN Some(obj[k]) ELSE Undefined

\* JSON.stringify of an object whose fields are scalars: a field holding
\* undefined is left out
JsonFlat(obj) ==
    [k \in {f \in DOMAIN obj : obj[f] # Undefined} |-> obj[k][1]]

(***************************************************************************)
(* Configuration: utils/config.ts and the client's constructor.            *)
(***************************************************************************)
MainnetUrl == "https://api.hyperliquid.xyz"

TestnetUrl == "https://api.hyperliquid-testnet.xyz"

\* A well-formed key with and without the 0x prefix, and a string that is
\* no key at all, with and without the prefix.
GoodKey == "0xKEY"

BareKey == "KEY"

BadKey == "0xnot-a-key"

BareBadKey == "not-a-key"

EnvValues ==
    [ HYPERLIQUID_API_URL : {Undefined, Some("https://custom.example")},
      HYPERLIQUID_PRIVATE_KEY :
          {Undefined, Some(GoodKey), Some(BareKey), Some(BadKey), Some(BareBadKey)},
      HYPERLIQUID_WALLET_ADDRESS : {Undefined, Some("0xWALLET"), Some("WALLET")},
      HYPERLIQUID_TESTNET : {Undefined, Some("true"), Some("false")} ]

StartsWith0x(s) == s \in {GoodKey, BadKey, "0xWALLET", "0xUSER"}

getConfig(e) ==
    LET isTestnet == e.HYPERLIQUID_TESTNET = Some("true")
        url == OrElse(e.HYPERLIQUID_API_URL, Some(MainnetUrl))
    IN  [ apiUrl |-> IF isTestnet THEN Some(TestnetUrl) ELSE url,
          privateKey |-> e.HYPERLIQUID_PRIVATE_KEY,
          walletAddress |-> e.HYPERLIQUID_WALLET_ADDRESS,
          isTestnet |-> isTestnet ]

validateConfig(c) ==
    (IF ~TruthyStr(c.apiUrl) THEN {"API URL is required"} ELSE {})
    \cup (IF TruthyStr(c.privateKey) /\ ~StartsWith0x(c.privateKey[1])
          THEN {"Private key must start with 0x"} ELSE {})
    \cup (IF TruthyStr(c.walletAddress) /\ ~StartsWith0x(c.walletAddress[1])
          THEN {"Wallet address must start with 0x"} ELSE {})
\* ClientConfig keeping the API URL getConfig chose
ClientConfigKeepsUrl(c) == c

\* constructor: the API URL is set again from the testnet flag
ClientConfig(c) ==
    [c EXCEPT !.apiUrl = Some(IF c.isTestnet THEN TestnetUrl ELSE MainnetUrl)]

\* new ethers.Wallet(privateKey): ethers prefixes a bare hex key with 0x and
\* throws on a string that is no 32-byte key
WalletThrows(c) == TruthyStr(c.privateKey) /\ c.privateKey[1] \in {BadKey, BareBadKey}

ClientWallet(c) ==
    IF ~TruthyStr(c.privateKey) THEN Undefined
    ELSE IF c.privateKey[1] = BareKey THEN Some(GoodKey)
    ELSE Some(c.privateKey[1])

(***************************************************************************)
(* The signer and the exchange (write) methods of the client.              *)
(***************************************************************************)
NoKeyMessage == "Private key required for trading operations"

generateNonce == now

\* JSON.stringify of an order object: t holds limit or trigger parameters
JsonOrder(o) ==
    LET t == o.t[1]
        jt == [k \in DOMAIN t |-> JsonFlat(t[k][1])]
    IN  [k \in {f \in DOMAIN o : o[f] # Undefined} |->
            IF k = "t" THEN jt ELSE o[k][1]]

\* JSON.stringify of an action
JsonAction(a) ==
    CASE a.type = "order" ->
            [type |-> a.type, orders |-> [i \in DOMAIN a.orders |-> JsonOrder(a.orders[i])]]
      [] a.type = "cancel" ->
            [type |-> a.type, cancels |-> [i \in DOMAIN a.cancels |-> JsonFlat(a.cancels[i])]]
      [] OTHER ->
            [type |-> a.type, cancels |-> [i \in DOMAIN a.cancels |-> JsonFlat(a.cancels[i])]]

\* the message signAction serializes, hashes and signs
SignedMessage(action, nonce) ==
    [ action |-> JsonAction(action),
      nonce |-> nonce,
      vaultAddress |-> OrNull(config.walletAddress) ]

\* signAction with a value that changes from call to call in the message
signActionSalted(action, nonce) ==
    IF wallet = Undefined
    THEN [ok |-> FALSE, error |-> NoKeyMessage]
    ELSE [ok |-> TRUE,
          signature |->
            [signer |-> wallet[1],
             digest |-> [salt |-> Cardinality({c \in DOMAIN calls : calls[c].signerCalls > 0})]
                        @@ SignedMessage(action, nonce)]]

\* keccak256 and the wallet's deterministic ECDSA signature are taken as
\* injective: a signature is the pair of its key and the message signed
signAction(action, nonce) ==
    IF wallet = Undefined
    THEN [ok |-> FALSE, error |-> NoKeyMessage]
    ELSE [ok |-> TRUE,
          signature |-> [signer |-> wallet[1], digest |-> SignedMessage(action, nonce)]]

\* ExchangeBody with the nonce read again when the request is posted
ExchangeBodyFreshNonce(action, nonce, signature) ==
    [ action |-> JsonAction(action),
      nonce |-> generateNonce,
      signature |-> signature,
      vaultAddress |-> OrNull(config.walletAddress) ]

\* the body posted to /exchange
ExchangeBody(action, nonce, signature) ==
    [ action |-> JsonAction(action),
      nonce |-> nonce,
      signature |-> signature,
      vaultAddress |-> OrNull(config.walletAddress) ]

\* ExchangeStart without the key check, signing with whatever wallet is there
ExchangeStartUngated(action) ==
    [kind |-> "sign", action |-> action, nonce |-> generateNonce,
     signature |-> [signer |-> Str(wallet), digest |-> SignedMessage(action, generateNonce)]]

\* A write method up to its first suspension: the key check, the nonce and
\* the call of signAction.
ExchangeStart(action) ==
    IF wallet = Undefined
    THEN [kind |-> "fail", error |-> NoKeyMessage]
    ELSE LET nonce == generateNonce
             signed == signAction(action, nonce)
         IN  IF signed.ok
             THEN [kind |-> "sign", action |-> action, nonce |-> nonce,
                   signature |-> signed.signature]
             ELSE [kind |-> "fail", error |-> signed.error]

placeOrder(action) == ExchangeStart(action)

cancelOrder(action) == ExchangeStart(action)

cancelAllOrders == ExchangeStart([type |-> "cancelByCloid", cancels |-> <<>>])

(***************************************************************************)
(* The info (read) methods of the client: the body each posts to /info.    *)
(***************************************************************************)
getAllMids == [type |-> "allMids"]

getL2Book(coin, nSigFigs) ==
    JsonFlat([type |-> Some("l2Book"), coin |-> coin, nSigFigs |-> nSigFigs])

getCandleSnapshot(coin, interval, startTime, endTime) ==
    [ type |-> "candleSnapshot",
      req |-> JsonFlat([coin |-> coin, interval |-> interval,
                        startTime |-> startTime, endTime |-> endTime]) ]

\* getOpenOrders preferring the configured address to the argument
getOpenOrdersConfigFirst(user) ==
    JsonFlat([type |-> Some("openOrders"), user |-> OrElse(config.walletAddress, user)])

getOpenOrders(user) ==
    JsonFlat([type |-> Some("openOrders"), user |-> OrElse(user, config.walletAddress)])

getUserFills(user) ==
    JsonFlat([type |-> Some("userFills"), user |-> OrElse(user, config.walletAddress)])

getUserFillsByTime(user, startTime, endTime) ==
    JsonFlat([type |-> Some("userFillsByTime"),
              user |-> OrElse(user, config.walletAddress),
              startTime |-> startTime, endTime |-> endTime])

getPortfolio(user) ==
    JsonFlat([type |-> Some("clearinghouseState"),
              user |-> OrElse(user, config.walletAddress)])

\* ApiResponse reporting the transport message whatever the body says
ApiResponseTransportOnly(resp) ==
    IF resp.kind = "ok"
    THEN [success |-> TRUE, data |-> resp.data, error |-> Undefined]
    ELSE [success |-> FALSE, data |-> Undefined, error |-> Some(resp.message)]

\* What a client method returns once its request has been answered:
\* error.response?.data?.message || error.message on a failure.
ApiResponse(resp) ==
    IF resp.kind = "ok"
    THEN [success |-> TRUE, data |-> resp.data, error |-> Undefined]
    ELSE [success |-> FALSE, data |-> Undefined,
          error |-> OrElse(resp.bodyMessage, Some(resp.message))]

(***************************************************************************)
(* Handlers.  A handler's start is what it does up to its first            *)
(* suspension: it throws, or leaves a request to sign, or posts to /info.  *)
(* A handler's finish is what it does with the client's result.            *)
(***************************************************************************)
Throw(message) == [kind |-> "throw", message |-> message]

\* Post to the exchange endpoint
PostToExchange(body) == [kind |-> "post", url |-> "/exchange", body |-> body]

Post(body) == [kind |-> "post", url |-> "/info", body |-> body]

\* const { p, ... } = args, with args undefined
DestructureMessage(p) ==
    "Cannot destructure property '" \o p \o "' of 'args' as it is undefined."

\* the catch block of a client method, for an exception without a response
Caught(message) == [success |-> FALSE, data |-> Undefined, error |-> Some(message)]

\* a write handler's start, given what the client method did: the method
\* that failed before its first suspension has returned, and the handler throws
WriteStart(started, prefix) ==
    IF started.kind = "fail"
    THEN [kind |-> "throw", message |-> prefix \o started.error,
          returned |-> Caught(started.error)]
    ELSE started

\* new Date(t).toISOString()
Iso(t) == <<"ISO", t>>

SideWord(side) == IF side = "B" THEN "BUY" ELSE "SELL"

Content(text) == [isError |-> FALSE, text |-> text]

Thrown(message) == [isError |-> TRUE, message |-> message]

\* if (!result.success) throw new Error(prefix + result.error)
Finish(result, prefix, text) ==
    IF ~result.success THEN Thrown(prefix \o result.error[1]) ELSE Content(text)
\* OrderCommon without the default of reduceOnly
OrderCommonNoDefault(args, price, t) ==
    LET order == [ a |-> Arg(args, "assetIndex"),
                   b |-> Arg(args, "isBuy"),
                   p |-> price,
                   s |-> Arg(args, "size"),
                   r |-> Arg(args, "reduceOnly"),
                   t |-> Some(t) ]
    IN  IF TruthyStr(Arg(args, "clientOrderId"))
        THEN ("c" :> Arg(args, "clientOrderId")) @@ order
        ELSE order

\* ---- tools/trading.ts
OrderCommon(args, price, t) ==
    LET reduceOnly == IF Arg(args, "reduceOnly") = Undefined
                      THEN Some(FALSE) ELSE Arg(args, "reduceOnly")
        order == [ a |-> Arg(args, "assetIndex"),
                   b |-> Arg(args, "isBuy"),
                   p |-> price,
                   s |-> Arg(args, "size"),
                   r |-> reduceOnly,
                   t |-> Some(t) ]
    IN  IF TruthyStr(Arg(args, "clientOrderId"))
        THEN ("c" :> Arg(args, "clientOrderId")) @@ order
        ELSE order

handlePlaceOrderStart(a) ==
    IF a = Undefined THEN Throw(DestructureMessage("assetIndex"))
    ELSE LET args == a[1]
             order == OrderCommon(args, Arg(args, "price"),
                        [limit |-> Some([tif |-> Arg(args, "timeInForce")])])
         IN  WriteStart(placeOrder([type |-> "order", orders |-> <<order>>]),
                        "Failed to place order: ")
\* handlePlaceTriggerOrder keeping the limit parameters next to the trigger
handlePlaceTriggerOrderStartWithLimit(a) ==
    IF a = Undefined THEN Throw(DestructureMessage("assetIndex"))
    ELSE LET args == a[1]
             order == OrderCommon(args, Some("0"),
                        [limit |-> Some([tif |-> Some("Gtc")]),
                         trigger |-> Some([ triggerPx |-> Arg(args, "triggerPrice"),
                                            isMarket |-> Arg(args, "isMarket"),
                                            tpsl |-> Arg(args, "triggerType") ])])
         IN  WriteStart(placeOrder([type |-> "order", orders |-> <<order>>]),
                        "Failed to place trigger order: ")

handlePlaceTriggerOrderStart(a) ==
    IF a = Undefined THEN Throw(DestructureMessage("assetIndex"))
    ELSE LET args == a[1]
             order == OrderCommon(args, Some("0"),
                        [trigger |-> Some([ triggerPx |-> Arg(args, "triggerPrice"),
                                            isMarket |-> Arg(args, "isMarket"),
                                            tpsl |-> Arg(args, "triggerType") ])])
         IN  WriteStart(placeOrder([type |-> "order", orders |-> <<order>>]),
                        "Failed to place trigger order: ")

handleCancelOrderStart(a) ==
    IF a = Undefined THEN Throw(DestructureMessage("assetIndex"))
    ELSE LET args == a[1]
             orderId == Arg(args, "orderId")
             clientOrderId == Arg(args, "clientOrderId")
             cancel == IF TruthyNum(orderId)
                       THEN [a |-> Arg(args, "assetIndex"), o |-> orderId]
                       ELSE [a |-> Arg(args, "assetIndex"), c |-> clientOrderId]
         IN  IF ~TruthyNum(orderId) /\ ~TruthyStr(clientOrderId)
             THEN Throw("Either orderId or clientOrderId must be provided")
             ELSE WriteStart(cancelOrder([type |-> "cancel", cancels |-> <<cancel>>]),
                             "Failed to cancel order: ")

handleCancelAllOrdersStart(a) ==
    WriteStart(cancelAllOrders, "Failed to cancel all orders: ")

handlePlaceOrderFinish(a, result) ==
    Finish(result, "Failed to place order: ",
           <<"Order placed successfully!", result.data>>)

handlePlaceTriggerOrderFinish(a, result) ==
    Finish(result, "Failed to place trigger order: ",
           <<"Trigger order placed successfully!", result.data>>)

handleCancelOrderFinish(a, result) ==
    Finish(result, "Failed to cancel order: ",
           <<"Order cancelled successfully!", result.data>>)

handleCancelAllOrdersFinish(a, result) ==
    Finish(result, "Failed to cancel all orders: ",
           <<"All orders cancelled successfully!", result.data>>)

\* ---- tools/market-data.ts
handleGetAllMidsStart(a) == Post(getAllMids)

handleGetL2BookStart(a) ==
    IF a = Undefined THEN Throw(DestructureMessage("coin"))
    ELSE Post(getL2Book(Arg(a[1], "coin"), Arg(a[1], "nSigFigs")))

handleGetCandleSnapshotStart(a) ==
    IF a = Undefined THEN Throw(DestructureMessage("coin"))
    ELSE Post(getCandleSnapshot(Arg(a[1], "coin"), Arg(a[1], "interval"),
                                Arg(a[1], "startTime"), Arg(a[1], "endTime")))

handleGetAllMidsFinish(a, result) ==
    Finish(result, "Failed to get mid prices: ",
           <<"Mid prices for all coins:", result.data>>)

\* book?.levels?.[i] || []
Levels(book, i) ==
    IF book = Undefined \/ "levels" \notin DOMAIN book[1] THEN <<>>
    ELSE book[1].levels[i]

LevelLine(l) == <<l.px, "@", l.sz>>

handleGetL2BookFinish(a, result) ==
    LET coin == Arg(a[1], "coin")
        bids == Levels(result.data, 1)
        asks == Levels(result.data, 2)
    IN  Finish(result, "Failed to get L2 book for " \o Str(coin) \o ": ",
               << "L2 Order Book for", coin,
                  "Bids", Len(bids), [i \in DOMAIN bids |-> LevelLine(bids[i])],
                  "Asks", Len(asks), [i \in DOMAIN asks |-> LevelLine(asks[i])] >>)

\* result.data?.candles || []
Candles(data) ==
    IF data = Undefined \/ "candles" \notin DOMAIN data[1] THEN <<>>
    ELSE data[1].candles

CandleLine(c) ==
    <<Iso(c.t), "O:", c.o, "H:", c.h, "L:", c.l, "C:", c.c, "V:", c.v>>

handleGetCandleSnapshotFinish(a, result) ==
    LET coin == Arg(a[1], "coin")
        candles == Candles(result.data)
    IN  Finish(result, "Failed to get candle data for " \o Str(coin) \o ": ",
               << "Candle data for", coin, Arg(a[1], "interval"),
                  [i \in DOMAIN candles |-> CandleLine(candles[i])] >>)

\* ---- tools/account-info.ts
handleGetOpenOrdersStart(a) ==
    IF a = Undefined THEN Throw(DestructureMessage("user"))
    ELSE Post(getOpenOrders(Arg(a[1], "user")))

handleGetUserFillsStart(a) ==
    IF a = Undefined THEN Throw(DestructureMessage("user"))
    ELSE Post(getUserFills(Arg(a[1], "user")))

handleGetUserFillsByTimeStart(a) ==
    IF a = Undefined THEN Throw(DestructureMessage("user"))
    ELSE Post(getUserFillsByTime(Arg(a[1], "user"), Arg(a[1], "startTime"),
                                 Arg(a[1], "endTime")))

handleGetPortfolioStart(a) ==
    IF a = Undefined THEN Throw(DestructureMessage("user"))
    ELSE Post(getPortfolio(Arg(a[1], "user")))

\* result.data || []
ListOf(data) == IF data = Undefined THEN <<>> ELSE data[1]

OrderLine(o) == <<o.coin, SideWord(o.side), o.sz, "@", o.px, "ID:", o.oid>>

handleGetOpenOrdersFinish(a, result) ==
    LET orders == ListOf(result.data)
    IN  Finish(result, "Failed to get open orders: ",
               IF Len(orders) = 0 THEN <<"No open orders found.">>
               ELSE << "Open Orders", Len(orders),
                       [i \in DOMAIN orders |-> OrderLine(orders[i])] >>)

FillLine(f) ==
    <<Iso(f.time), f.coin, SideWord(f.side), f.sz, "@", f.px, "Fee:", f.fee>>

\* fills.slice(0, 20)
FillCap == 20

\* Slice that stops one element early
SliceShort(s, n) == [i \in 1..(IF Len(s) < n - 1 THEN Len(s) ELSE n - 1) |-> s[i]]

Slice(s, n) == [i \in 1..(IF Len(s) < n THEN Len(s) ELSE n) |-> s[i]]
\* handleGetUserFills announcing more fills from the twentieth on
handleGetUserFillsFinishEarlyMore(a, result) ==
    LET fills == ListOf(result.data)
        shown == Slice(fills, FillCap)
    IN  Finish(result, "Failed to get user fills: ",
               IF Len(fills) = 0 THEN <<"No trading history found.">>
               ELSE << "Trading History", Len(fills), "fills",
                       [i \in DOMAIN shown |-> FillLine(shown[i])] >>
                    \o (IF Len(fills) >= FillCap THEN <<"... and more">> ELSE <<>>))

handleGetUserFillsFinish(a, result) ==
    LET fills == ListOf(result.data)
        shown == Slice(fills, FillCap)
    IN  Finish(result, "Failed to get user fills: ",
               IF Len(fills) = 0 THEN <<"No trading history found.">>
               ELSE << "Trading History", Len(fills), "fills",
                       [i \in DOMAIN shown |-> FillLine(shown[i])] >>
                    \o (IF Len(fills) > FillCap THEN <<"... and more">> ELSE <<>>))

handleGetUserFillsByTimeFinish(a, result) ==
    LET fills == ListOf(result.data)
    IN  Finish(result, "Failed to get user fills by time: ",
               IF Len(fills) = 0
               THEN <<"No trading history found for the specified time range.">>
               ELSE << "Trading History", Len(fills), "fills",
                       [i \in DOMAIN fills |-> FillLine(fills[i])] >>)

\* portfolio?.f || '0'
Shown(portfolio, f) ==
    IF portfolio = Undefined \/ f \notin DOMAIN portfolio[1] \/ portfolio[1][f] = ""
    THEN "0" ELSE portfolio[1][f]

\* portfolio?.time ? new Date(portfolio.time).toISOString() : 'N/A'
ShownTime(portfolio) ==
    IF portfolio = Undefined \/ "time" \notin DOMAIN portfolio[1] \/ portfolio[1].time = 0
    THEN <<"N/A">> ELSE Iso(portfolio[1].time)

handleGetPortfolioFinish(a, result) ==
    Finish(result, "Failed to get portfolio: ",
           << "Portfolio Summary:",
              "Total Notional Position: $", Shown(result.data, "totalNtlPos"),
              "Total Unrealized PnL: $", Shown(result.data, "totalUnrealizedPnl"),
              "Total Margin Used: $", Shown(result.data, "totalMarginUsed"),
              "Last Updated: ", ShownTime(result.data) >>)

(***************************************************************************)
(* The server: the tool catalog and the call-tool dispatcher (index.ts).   *)
(***************************************************************************)
ReadTools ==
    { "get_all_mids", "get_l2_book", "get_candle_snapshot", "get_open_orders",
      "get_user_fills", "get_user_fills_by_time", "get_portfolio" }

WriteTools ==
    { "place_order", "place_trigger_order", "cancel_order", "cancel_all_orders" }

\* ListTools without the last tool of the list
ListToolsShort == ReadTools \cup (WriteTools \ {"cancel_all_orders"})

\* the names the list-tools handler returns
ListTools == ReadTools \cup WriteTools

\* HandlerOf with one case label missing its return: it falls through
HandlerOfFallThrough(name) ==
    CASE name = "get_all_mids" -> "handleGetAllMids"
      [] name = "get_l2_book" -> "handleGetL2Book"
      [] name = "get_candle_snapshot" -> "handleGetCandleSnapshot"
      [] name = "get_open_orders" -> "handleGetOpenOrders"
      [] name = "get_user_fills" -> "handleGetUserFillsByTime"
      [] name = "get_user_fills_by_time" -> "handleGetUserFillsByTime"
      [] name = "get_portfolio" -> "handleGetPortfolio"
      [] name = "place_order" -> "handlePlaceOrder"
      [] name = "place_trigger_order" -> "handlePlaceTriggerOrder"
      [] name = "cancel_order" -> "handleCancelOrder"
      [] name = "cancel_all_orders" -> "handleCancelAllOrders"
      [] OTHER -> "none"

\* switch (name)
HandlerOf(name) ==
    CASE name = "get_all_mids" -> "handleGetAllMids"
      [] name = "get_l2_book" -> "handleGetL2Book"
      [] name = "get_candle_snapshot" -> "handleGetCandleSnapshot"
      [] name = "get_open_orders" -> "handleGetOpenOrders"
      [] name = "get_user_fills" -> "handleGetUserFills"
      [] name = "get_user_fills_by_time" -> "handleGetUserFillsByTime"
      [] name = "get_portfolio" -> "handleGetPortfolio"
      [] name = "place_order" -> "handlePlaceOrder"
      [] name = "place_trigger_order" -> "handlePlaceTriggerOrder"
      [] name = "cancel_order" -> "handleCancelOrder"
      [] name = "cancel_all_orders" -> "handleCancelAllOrders"
      [] OTHER -> "none"

HandlerStart(h, a) ==
    CASE h = "handleGetAllMids" -> handleGetAllMidsStart(a)
      [] h = "handleGetL2Book" -> handleGetL2BookStart(a)
      [] h = "handleGetCandleSnapshot" -> handleGetCandleSnapshotStart(a)
      [] h = "handleGetOpenOrders" -> handleGetOpenOrdersStart(a)
      [] h = "handleGetUserFills" -> handleGetUserFillsStart(a)
      [] h = "handleGetUserFillsByTime" -> handleGetUserFillsByTimeStart(a)
      [] h = "handleGetPortfolio" -> handleGetPortfolioStart(a)
      [] h = "handlePlaceOrder" -> handlePlaceOrderStart(a)
      [] h = "handlePlaceTriggerOrder" -> handlePlaceTriggerOrderStart(a)
      [] h = "handleCancelOrder" -> handleCancelOrderStart(a)
      [] h = "handleCancelAllOrders" -> handleCancelAllOrdersStart(a)

HandlerFinish(h, a, result) ==
    CASE h = "handleGetAllMids" -> handleGetAllMidsFinish(a, result)
      [] h = "handleGetL2Book" -> handleGetL2BookFinish(a, result)
      [] h = "handleGetCandleSnapshot" -> handleGetCandleSnapshotFinish(a, result)
      [] h = "handleGetOpenOrders" -> handleGetOpenOrdersFinish(a, result)
      [] h = "handleGetUserFills" -> handleGetUserFillsFinish(a, result)
      [] h = "handleGetUserFillsByTime" -> handleGetUserFillsByTimeFinish(a, result)
      [] h = "handleGetPortfolio" -> handleGetPortfolioFinish(a, result)
      [] h = "handlePlaceOrder" -> handlePlaceOrderFinish(a, result)
      [] h = "handlePlaceTriggerOrder" -> handlePlaceTriggerOrderFinish(a, result)
      [] h = "handleCancelOrder" -> handleCancelOrderFinish(a, result)
      [] h = "handleCancelAllOrders" -> handleCancelAllOrdersFinish(a, result)

TextItem(text) == [type |-> "text", text |-> text]

\* CallToolReturn without the try/catch: what a handler throws reaches the host
CallToolReturnUncaught(h) ==
    IF h.isError
    THEN [ outcome |-> "threw",
           result |-> [content |-> <<TextItem(h.message)>>, isError |-> TRUE] ]
    ELSE [ outcome |-> "returned",
           result |-> [content |-> <<TextItem(h.text)>>] ]

\* The dispatcher's try/catch: what the call handler hands to the host for
\* what the handler returned (h.isError false) or threw (h.isError true).
CallToolReturn(h) ==
    IF h.isError
    THEN [ outcome |-> "returned",
           result |-> [content |-> <<TextItem("Error: " \o h.message)>>, isError |-> TRUE] ]
    ELSE [ outcome |-> "returned",
           result |-> [content |-> <<TextItem(h.text)>>] ]

(***************************************************************************)
(* A call being served.                                                    *)
(***************************************************************************)
IdleCall ==
    [ pc |-> "idle", name |-> "", args |-> Undefined, handlers |-> <<>>,
      action |-> Undefined, nonce |-> Undefined, signature |-> Undefined,
      signerCalls |-> 0, requests |-> <<>>, response |-> Undefined,
      returned |-> Undefined, outcome |-> "none", result |-> Undefined ]
\* Request stamped with a count the client keeps across calls
RequestCounting(url, body) ==
    [ base |-> baseURL, url |-> url,
      body |-> ("seq" :> Cardinality({c \in CallIds : calls[c].requests # <<>>})) @@ body ]

\* axios.post(url, body) on the client's instance
Request(url, body) == [base |-> baseURL, url |-> url, body |-> body]

Settled(call, h) ==
    LET r == CallToolReturn(h)
    IN  [call EXCEPT !.pc = "done", !.outcome = r.outcome, !.result = Some(r.result)]

SignFailureMessage == "signing failed"

(***************************************************************************)
(* The host's requests.                                                    *)
(***************************************************************************)
EmptyArgs == [k \in {} |-> 0]

LimitArgs ==
    [assetIndex |-> 0, isBuy |-> TRUE, price |-> "50000", size |-> "0.1",
     timeInForce |-> "Gtc"]

TriggerArgs ==
    [assetIndex |-> 0, isBuy |-> FALSE, size |-> "0.1", triggerPrice |-> "45000",
     isMarket |-> TRUE, triggerType |-> "sl", reduceOnly |-> TRUE]

CancelArgs ==
    { [assetIndex |-> 0], [orderId |-> 12345] }
    \cup { [assetIndex |-> 0, orderId |-> o] : o \in {0, 12345} }
    \cup { [assetIndex |-> 0, clientOrderId |-> c] : c \in {"", "my-order-1"} }
    \cup { [assetIndex |-> 0, orderId |-> o, clientOrderId |-> c] :
              o \in {0, 12345}, c \in {"", "my-order-1"} }

ArgsOf(name) ==
    CASE name = "get_all_mids" -> {EmptyArgs}
      [] name = "get_l2_book" -> {[coin |-> "BTC"], [coin |-> "BTC", nSigFigs |-> 3]}
      [] name = "get_candle_snapshot" ->
            { [coin |-> "BTC", interval |-> "1h"],
              [coin |-> "BTC", interval |-> "1h", startTime |-> 1, endTime |-> 2] }
      [] name = "get_user_fills_by_time" ->
            { EmptyArgs, [user |-> "0xUSER", startTime |-> 1, endTime |-> 2] }
      [] name \in {"get_open_orders", "get_user_fills", "get_portfolio"} ->
            { EmptyArgs, [user |-> "0xUSER"], [user |-> ""] }
      [] name = "place_order" ->
            { LimitArgs,
              [clientOrderId |-> "my-order-1"] @@ LimitArgs,
              [reduceOnly |-> TRUE, clientOrderId |-> "my-order-1"] @@ LimitArgs,
              [reduceOnly |-> FALSE, clientOrderId |-> ""] @@ LimitArgs }
      [] name = "place_trigger_order" ->
            { TriggerArgs, [clientOrderId |-> "my-order-1"] @@ TriggerArgs }
      [] name = "cancel_order" -> CancelArgs
      [] name = "cancel_all_orders" -> {EmptyArgs}
      [] OTHER -> {EmptyArgs}

UnknownNames == {"get_positions", ""}

\* every tool with each of its argument objects and with no arguments at all
Requests ==
    { [name |-> n, args |-> a] :
        n \in ListTools \cup UnknownNames, a \in {Undefined} }
    \cup UNION { { [name |-> n, args |-> Some(a)] : a \in ArgsOf(n) } :
                   n \in ListTools \cup UnknownNames }

\* the requests of concurrent hosts
ConcRequests ==
    { [name |-> "place_order", args |-> Some(LimitArgs)],
      [name |-> "cancel_all_orders", args |-> Some(EmptyArgs)],
      [name |-> "get_open_orders", args |-> Some(EmptyArgs)] }

(***************************************************************************)
(* The remote's answers.                                                   *)
(***************************************************************************)
Ok(payload) ==
    [kind |-> "ok", data |-> Some(payload), bodyMessage |-> Undefined, message |-> ""]

Failures ==
    { [kind |-> "error", data |-> Undefined, bodyMessage |-> Some("Insufficient margin"),
       message |-> "Request failed with status code 400"],
      [kind |-> "error", data |-> Undefined, bodyMessage |-> Undefined,
       message |-> "timeout of 30000ms exceeded"] }

Fill(i) ==
    [ coin |-> "BTC", px |-> "50000", sz |-> "0.1",
      side |-> IF i % 2 = 0 THEN "B" ELSE "A",
      time |-> i, oid |-> 100 + i, crossed |-> TRUE, fee |-> "0.01", tid |-> 200 + i ]

FillsOf(n) == [i \in 1..n |-> Fill(i)]

OpenOrder(i) ==
    [ coin |-> "ETH", side |-> IF i % 2 = 0 THEN "B" ELSE "A", sz |-> "2",
      px |-> "3000", oid |-> 100 + i, timestamp |-> i, origSz |-> "4" ]

Candle(i) ==
    [ t |-> i, T |-> i + 1, s |-> "BTC", i |-> "1h", o |-> "1", c |-> "2",
      h |-> "3", l |-> "0", v |-> "10", n |-> 5 ]

Payloads(name) ==
    CASE name = "get_all_mids" -> { [BTC |-> "50000", ETH |-> "3000"] }
      [] name = "get_l2_book" ->
            { [coin |-> "BTC", time |-> 1,
               levels |-> << <<[px |-> "49999", sz |-> "1.5"]>>,
                             <<[px |-> "50001", sz |-> "2"], [px |-> "50002", sz |-> "0.3"]>> >>],
              [coin |-> "BTC", time |-> 1] }
      [] name = "get_candle_snapshot" ->
            { [coin |-> "BTC", candles |-> <<Candle(1), Candle(2)>>] }
      [] name = "get_open_orders" -> { <<>>, <<OpenOrder(1), OpenOrder(2)>> }
      [] name \in {"get_user_fills", "get_user_fills_by_time"} ->
            { FillsOf(n) : n \in {0, 2, FillCap, MaxFills} }
      [] name = "get_portfolio" ->
            { [totalNtlPos |-> "1000", totalUnrealizedPnl |-> "5",
               totalMarginUsed |-> "100", time |-> 1],
              [totalNtlPos |-> "", totalUnrealizedPnl |-> "5",
               totalMarginUsed |-> "100", time |-> 0] }
      [] OTHER -> { [status |-> "ok"] }

Responses(name) == { Ok(p) : p \in Payloads(name) } \cup Failures

(***************************************************************************)
(* Actions.                                                                *)
(***************************************************************************)
ClientVars == <<env, config, baseURL, wallet, configErrors, phase>>

\* The call-tool handler from the request to the handler's first suspension.
CallTool(c, name, a) ==
    /\ phase = "serving"
    /\ calls[c].pc = "idle"
    /\ LET h == HandlerOf(name)
           st == IF h = "none" THEN Throw("Unknown tool: " \o name)
                 ELSE HandlerStart(h, a)
           call == [IdleCall EXCEPT !.name = name, !.args = a,
                                    !.handlers = IF h = "none" THEN <<>> ELSE <<h>>]
       IN  calls' = [calls EXCEPT ![c] =
              CASE st.kind = "throw" ->
                      Settled([call EXCEPT !.returned =
                                  IF "returned" \in DOMAIN st
                                  THEN Some(st.returned) ELSE Undefined],
                              Thrown(st.message))
                [] st.kind = "sign" ->
                      [call EXCEPT !.pc = "signing", !.action = Some(st.action),
                                   !.nonce = Some(st.nonce),
                                   !.signature = Some(st.signature),
                                   !.signerCalls = 1]
                [] st.kind = "post" ->
                      [call EXCEPT !.pc = "awaiting",
                                   !.requests = <<Request(st.url, st.body)>>]]
    /\ UNCHANGED <<ClientVars, now, catalog>>

\* signAction's promise settles: the write method posts to /exchange, or its
\* catch block turns the failure into a failed ApiResponse.
SignDone(c, ok) ==
    /\ calls[c].pc = "signing"
    /\ LET call == calls[c]
           failed == Caught(SignFailureMessage)
       IN  calls' = [calls EXCEPT ![c] =
              IF ok
              THEN [call EXCEPT !.pc = "awaiting",
                      !.requests = Append(call.requests,
                          Request("/exchange",
                                  ExchangeBody(call.action[1], call.nonce[1],
                                               call.signature[1])))]
              ELSE Settled([call EXCEPT !.signature = Undefined,
                                        !.returned = Some(failed)],
                           HandlerFinish(call.handlers[1], call.args, failed))]
    /\ UNCHANGED <<ClientVars, now, catalog>>
\* Respond posting the request once more when it failed
RespondRetrying(c, resp) ==
    /\ calls[c].pc = "awaiting"
    /\ LET call == calls[c]
       IN  calls' = [calls EXCEPT ![c] =
              IF resp.kind = "error" /\ Len(call.requests) < 2
              THEN [call EXCEPT !.requests = Append(call.requests, call.requests[1])]
              ELSE Settled([call EXCEPT !.response = Some(resp),
                                        !.returned = Some(ApiResponse(resp))],
                           HandlerFinish(call.handlers[1], call.args, ApiResponse(resp)))]
    /\ UNCHANGED <<ClientVars, now, catalog>>

\* The remote answers the request: the client method returns, the handler
\* formats or throws, the call handler returns to the host.
Respond(c, resp) ==
    /\ calls[c].pc = "awaiting"
    /\ LET call == calls[c]
       IN  calls' = [calls EXCEPT ![c] =
              Settled([call EXCEPT !.response = Some(resp),
                                   !.returned = Some(ApiResponse(resp))],
                      HandlerFinish(call.handlers[1], call.args, ApiResponse(resp)))]
    /\ UNCHANGED <<ClientVars, now, catalog>>

\* The host has the result; the slot serves the next call.
Return(c) ==
    /\ calls[c].pc = "done"
    /\ calls' = [calls EXCEPT ![c] = IdleCall]
    /\ UNCHANGED <<ClientVars, now, catalog>>

\* A millisecond passes.
Tick ==
    /\ now < MaxTime
    /\ now' = now + 1
    /\ UNCHANGED <<ClientVars, calls, catalog>>

\* The list-tools handler answers the host.
ListToolsRequest ==
    /\ phase = "serving"
    /\ catalog = Undefined
    /\ catalog' = Some(ListTools)
    /\ UNCHANGED <<ClientVars, now, calls>>

\* index.ts at load: getConfig, validateConfig, new HyperliquidClient(config).
Startup(e) ==
    LET cfg == getConfig(e)
    IN  /\ env = e
        /\ configErrors = validateConfig(cfg)
        /\ config = ClientConfig(cfg)
        /\ baseURL = ClientConfig(cfg).apiUrl[1]
        /\ wallet = IF WalletThrows(cfg) THEN Undefined ELSE ClientWallet(cfg)
        /\ phase = IF WalletThrows(cfg) THEN "crashed" ELSE "serving"
        /\ now = 0
        /\ calls = [c \in CallIds |-> IdleCall]
        /\ catalog = Undefined

Init == \E e \in EnvValues : Startup(e)

\* The host awaits each result before it issues the next call.
Quiet == \A c \in CallIds : calls[c].pc = "idle"

Next ==
    \/ \E c \in CallIds, r \in Requests : Quiet /\ CallTool(c, r.name, r.args)
    \/ \E c \in CallIds, ok \in BOOLEAN : SignDone(c, ok)
    \/ \E c \in CallIds : \E resp \in Responses(calls[c].name) : Respond(c, resp)
    \/ \E c \in CallIds : Return(c)
    \/ ListToolsRequest
    \/ Tick

Spec == Init /\ [][Next]_vars

\* Hosts that issue calls concurrently: call c arrives after call c - 1, and
\* every result is kept.
ConcEnv ==
    { e \in EnvValues :
        /\ e.HYPERLIQUID_API_URL = Undefined
        /\ e.HYPERLIQUID_TESTNET = Undefined
        /\ e.HYPERLIQUID_PRIVATE_KEY \in {Undefined, Some(GoodKey)}
        /\ e.HYPERLIQUID_WALLET_ADDRESS \in {Undefined, Some("0xWALLET")} }

InitConc == \E e \in ConcEnv : Startup(e)

Arrived(c) == \A d \in CallIds : d < c => calls[d].pc # "idle"

NextConc ==
    \/ \E c \in CallIds, r \in ConcRequests : Arrived(c) /\ CallTool(c, r.name, r.args)
    \/ \E c \in CallIds, ok \in BOOLEAN : SignDone(c, ok)
    \/ \E c \in CallIds : \E resp \in Responses(calls[c].name) : Respond(c, resp)
    \/ ListToolsRequest
    \/ Tick

SpecConc == InitConc /\ [][NextConc]_vars

(***************************************************************************)
(* Properties.                                                             *)
(***************************************************************************)
Active == {c \in CallIds : calls[c].pc # "idle"}

Done == {c \in CallIds : calls[c].pc = "done"}

IsErrorResult(c) ==
    /\ calls[c].result # Undefined
    /\ "isError" \in DOMAIN calls[c].result[1]
    /\ calls[c].result[1].isError

\* the result is the single text item 'Error: <message>'
ErrorIs(c, message) ==
    /\ calls[c].outcome = "returned"
    /\ IsErrorResult(c)
    /\ calls[c].result[1].content = <<[type |-> "text", text |-> "Error: " \o message]>>

FailPrefix(name) ==
    CASE name = "place_order" -> "Failed to place order: "
      [] name = "place_trigger_order" -> "Failed to place trigger order: "
      [] name = "cancel_order" -> "Failed to cancel order: "
      [] name = "cancel_all_orders" -> "Failed to cancel all orders: "
      [] name = "get_all_mids" -> "Failed to get mid prices: "
      [] name = "get_l2_book" -> "Failed to get L2 book for BTC: "
      [] name = "get_candle_snapshot" -> "Failed to get candle data for BTC: "
      [] name = "get_open_orders" -> "Failed to get open orders: "
      [] name = "get_user_fills" -> "Failed to get user fills: "
      [] name = "get_user_fills_by_time" -> "Failed to get user fills by time: "
      [] name = "get_portfolio" -> "Failed to get portfolio: "

NoArguments(c) == calls[c].args = Undefined /\ calls[c].name \notin {"get_all_mids", "cancel_all_orders"}

FirstProperty(name) ==
    IF name \in {"get_l2_book", "get_candle_snapshot"} THEN "coin"
    ELSE IF name \in WriteTools THEN "assetIndex" ELSE "user"

\* cancel_order passes neither a non-zero orderId nor a non-empty clientOrderId
NoUsableId(c) ==
    /\ calls[c].name = "cancel_order"
    /\ calls[c].args # Undefined
    /\ ~TruthyNum(Arg(calls[c].args[1], "orderId"))
    /\ ~TruthyStr(Arg(calls[c].args[1], "clientOrderId"))

KeylessWrite(c) ==
    /\ wallet = Undefined
    /\ calls[c].pc # "idle"
    /\ calls[c].name \in WriteTools

NoTraffic(c) == calls[c].requests = <<>> /\ calls[c].signerCalls = 0

\* C1, as stated: a write tool called on a client without a private key ends in
\* an error result whose message says a private key is required for trading,
\* and issues no HTTP request at any point of the call.
C1_KeylessWriteSaysKeyRequired ==
    \A c \in CallIds :
        KeylessWrite(c) =>
            /\ calls[c].requests = <<>>
            /\ calls[c].pc = "done"
            /\ ErrorIs(c, FailPrefix(calls[c].name) \o NoKeyMessage)

\* C1, amended: a write tool called on a client without a private key ends in
\* an error result and neither signs nor issues any HTTP request; the message
\* says a private key is required whenever the handler reaches the client, a
\* call without an arguments object fails on reading them, and cancel_order
\* without a usable id fails with 'Either orderId or clientOrderId must be
\* provided'.
C1_KeylessWriteFails ==
    \A c \in CallIds :
        KeylessWrite(c) =>
            /\ NoTraffic(c)
            /\ calls[c].pc = "done"
            /\ ErrorIs(c,
                 IF NoArguments(c) THEN DestructureMessage(FirstProperty(calls[c].name))
                 ELSE IF NoUsableId(c)
                      THEN "Either orderId or clientOrderId must be provided"
                      ELSE FailPrefix(calls[c].name) \o NoKeyMessage)

C1_Witness ==
    \E c \in CallIds :
        /\ KeylessWrite(c)
        /\ calls[c].name = "cancel_order"
        /\ ErrorIs(c, "Failed to cancel order: " \o NoKeyMessage)

ExchangeRequests(c) ==
    {i \in DOMAIN calls[c].requests : calls[c].requests[i].url = "/exchange"}

\* C2: every request posted to /exchange is {action, nonce, signature,
\* vaultAddress}, and its signature was made by the client's key over exactly
\* the action, the nonce and the vault address of that body, the vault address
\* being the configured wallet address or null.
C2_SignatureCoversBody ==
    \A c \in CallIds : \A i \in ExchangeRequests(c) :
        LET body == calls[c].requests[i].body
        IN  /\ DOMAIN body = {"action", "nonce", "signature", "vaultAddress"}
            /\ body.signature.signer = wallet[1]
            /\ body.signature.digest =
                 [action |-> body.action, nonce |-> body.nonce,
                  vaultAddress |-> body.vaultAddress]
            /\ body.vaultAddress = OrNull(config.walletAddress)

C2_Witness ==
    \E c \in CallIds : \E i \in ExchangeRequests(c) :
        /\ calls[c].requests[i].body.vaultAddress = "0xWALLET"
        /\ calls[c].requests[i].body.nonce < now
        /\ calls[c].requests[i].body.action.type = "cancel"

Signed == {c \in CallIds : calls[c].nonce # Undefined}

\* C3: the nonces of the signed envelopes are strictly increasing in the order
\* the calls generate them (calls arrive in the order of their slots).
C3_NoncesStrictlyIncrease ==
    \A c, d \in Signed : c < d => calls[c].nonce[1] < calls[d].nonce[1]

HasSignature == {c \in CallIds : calls[c].signature # Undefined}

OwnHandler ==
    [ get_all_mids |-> "handleGetAllMids", get_l2_book |-> "handleGetL2Book",
      get_candle_snapshot |-> "handleGetCandleSnapshot",
      get_open_orders |-> "handleGetOpenOrders", get_user_fills |-> "handleGetUserFills",
      get_user_fills_by_time |-> "handleGetUserFillsByTime",
      get_portfolio |-> "handleGetPortfolio", place_order |-> "handlePlaceOrder",
      place_trigger_order |-> "handlePlaceTriggerOrder",
      cancel_order |-> "handleCancelOrder", cancel_all_orders |-> "handleCancelAllOrders" ]

\* C5: each of the 11 tool names invokes its own handler and no other; any
\* other name invokes no handler, issues no request and yields the error
\* result 'Error: Unknown tool: <name>'.
C5_Routing ==
    /\ Cardinality(DOMAIN OwnHandler) = 11
    /\ \A c \in Active :
          IF calls[c].name \in DOMAIN OwnHandler
          THEN calls[c].handlers = <<OwnHandler[calls[c].name]>>
          ELSE /\ calls[c].handlers = <<>>
               /\ NoTraffic(c)
               /\ calls[c].pc = "done"
               /\ ErrorIs(c, "Unknown tool: " \o calls[c].name)

C5_Witness ==
    \E c \in Active :
        calls[c].name = "get_positions" /\ ErrorIs(c, "Unknown tool: get_positions")

SigningFailed(c) ==
    calls[c].pc = "done" /\ calls[c].signerCalls = 1 /\ calls[c].requests = <<>>

RemoteFailed(c) == calls[c].response # Undefined /\ calls[c].response[1].kind = "error"

RemoteAnswered(c) == calls[c].response # Undefined /\ calls[c].response[1].kind = "ok"

\* a failure occurred while the call was served
Failure(c) ==
    \/ calls[c].name \notin ListTools
    \/ NoArguments(c)
    \/ NoUsableId(c)
    \/ KeylessWrite(c)
    \/ SigningFailed(c)
    \/ RemoteFailed(c)

\* the message of the failure, in the order the code meets them
FailureMessage(c) ==
    IF calls[c].name \notin ListTools THEN "Unknown tool: " \o calls[c].name
    ELSE IF NoArguments(c) THEN DestructureMessage(FirstProperty(calls[c].name))
    ELSE IF NoUsableId(c) THEN "Either orderId or clientOrderId must be provided"
    ELSE IF KeylessWrite(c) THEN FailPrefix(calls[c].name) \o NoKeyMessage
    ELSE IF SigningFailed(c) THEN FailPrefix(calls[c].name) \o SignFailureMessage
    ELSE FailPrefix(calls[c].name)
            \o (IF calls[c].response[1].bodyMessage # Undefined
                THEN calls[c].response[1].bodyMessage[1]
                ELSE calls[c].response[1].message)

\* C6: every failure met while serving a call is returned as a result with
\* isError true and the single text item 'Error: <message>'; the call handler
\* never throws to the host, and the server goes on serving.
C6_FailuresContained ==
    \A c \in Active :
        /\ calls[c].outcome # "threw"
        /\ phase = "serving"
        /\ calls[c].pc = "done" =>
              /\ calls[c].outcome = "returned"
              /\ Failure(c) => ErrorIs(c, FailureMessage(c))
              /\ ~Failure(c) => ~IsErrorResult(c)

C6_Witness ==
    \E c \in Done :
        /\ RemoteFailed(c)
        /\ ErrorIs(c, "Failed to place order: Insufficient margin")

\* C7: a read tool called with an arguments object issues exactly one HTTP
\* request, to /info, whether or not a private key is configured; the signer
\* is not invoked and the request carries neither nonce nor signature.
C7_ReadsUnauthenticated ==
    \A c \in Active :
        (calls[c].name \in ReadTools /\ calls[c].args # Undefined) =>
            /\ Len(calls[c].requests) = 1
            /\ calls[c].requests[1].url = "/info"
            /\ "type" \in DOMAIN calls[c].requests[1].body
            /\ DOMAIN calls[c].requests[1].body
                 \cap {"nonce", "signature", "vaultAddress"} = {}
            /\ calls[c].signerCalls = 0
            /\ calls[c].nonce = Undefined
            /\ calls[c].signature = Undefined

C7_Witness ==
    \E c \in Done :
        /\ wallet = Undefined
        /\ calls[c].name = "get_open_orders"
        /\ RemoteAnswered(c)
        /\ ~IsErrorResult(c)

(***************************************************************************)
(* What a read tool's text carries of the remote payload.  The text         *)
(* carries a field when a payload that differs in that field alone yields a *)
(* different text, and carries a record when the payload without it yields  *)
(* a different text.                                                        *)
(***************************************************************************)
ReadAnswered(c) ==
    calls[c].pc = "done" /\ calls[c].name \in ReadTools /\ RemoteAnswered(c)

Payload(c) == calls[c].response[1].data[1]

\* the text the call's handler makes of payload p
TextFor(c, p) ==
    HandlerFinish(calls[c].handlers[1], calls[c].args, ApiResponse(Ok(p))).text

\* another value of field f
Alt(f, v) ==
    IF f \in {"time", "t", "T", "oid", "tid", "timestamp", "n"} THEN v + 1000
    ELSE IF f = "crossed" THEN ~v
    ELSE IF f = "side" THEN (IF v = "B" THEN "A" ELSE "B")
    ELSE v \o "~"

Changed(r, f) == [r EXCEPT ![f] = Alt(f, r[f])]

DropLast(s) == SubSeq(s, 1, Len(s) - 1)

\* the text tells payload p from payload q
Tells(c, p, q) == TextFor(c, p) # TextFor(c, q)

\* the fields of a record that the tool prints, and the records it lists
PrintedFields(name) ==
    CASE name = "get_l2_book" -> {"px", "sz"}
      [] name = "get_candle_snapshot" -> {"t", "o", "h", "l", "c", "v"}
      [] name = "get_open_orders" -> {"coin", "side", "sz", "px", "oid"}
      [] name \in {"get_user_fills", "get_user_fills_by_time"} ->
            {"time", "coin", "side", "sz", "px", "fee"}
      [] name = "get_portfolio" ->
            {"totalNtlPos", "totalUnrealizedPnl", "totalMarginUsed", "time"}

Listed(name, i) == name = "get_user_fills" => i <= FillCap

\* Carries(c, all): for every field of every record of the payload, the text
\* carries it exactly when all is true or the tool prints that field of that
\* record; and the text carries the number of records.
CarriesList(c, p, all) ==
    /\ \A i \in DOMAIN p : \A f \in DOMAIN p[i] :
          Tells(c, p, [p EXCEPT ![i] = Changed(p[i], f)])
             <=> (all \/ (f \in PrintedFields(calls[c].name) /\ Listed(calls[c].name, i)))
    /\ Len(p) > 0 => Tells(c, p, DropLast(p))

CarriesBook(c, p, all) ==
    /\ \A f \in DOMAIN p \ {"levels"} : Tells(c, p, Changed(p, f)) <=> all
    /\ "levels" \in DOMAIN p =>
          \A s \in {1, 2} :
             /\ \A i \in DOMAIN p.levels[s] : \A f \in DOMAIN p.levels[s][i] :
                   Tells(c, p, [p EXCEPT !.levels[s][i] = Changed(p.levels[s][i], f)])
                      <=> (all \/ f \in PrintedFields(calls[c].name))
             /\ Len(p.levels[s]) > 0 =>
                   Tells(c, p, [p EXCEPT !.levels[s] = DropLast(p.levels[s])])

CarriesCandles(c, p, all) ==
    /\ Tells(c, p, Changed(p, "coin")) <=> all
    /\ \A i \in DOMAIN p.candles : \A f \in DOMAIN p.candles[i] :
          Tells(c, p, [p EXCEPT !.candles[i] = Changed(p.candles[i], f)])
             <=> (all \/ f \in PrintedFields(calls[c].name))
    /\ Tells(c, p, [p EXCEPT !.candles = DropLast(p.candles)])

CarriesMids(c, p) ==
    /\ \A k \in DOMAIN p : Tells(c, p, Changed(p, k))
    /\ \A k \in DOMAIN p : Tells(c, p, [j \in DOMAIN p \ {k} |-> p[j]])

\* an empty amount reads '0' and a zero time reads 'N/A', as a missing one does
CarriesPortfolio(c, p, all) ==
    /\ \A f \in DOMAIN p : Tells(c, p, Changed(p, f))
    /\ \A f \in DOMAIN p \ {"time"} :
          Tells(c, [p EXCEPT ![f] = ""], [p EXCEPT ![f] = "0"]) <=> all
    /\ Tells(c, [p EXCEPT !.time = 0], [j \in DOMAIN p \ {"time"} |-> p[j]]) <=> all

Carries(c, all) ==
    LET name == calls[c].name
        p == Payload(c)
    IN  CASE name = "get_all_mids" -> CarriesMids(c, p)
          [] name = "get_l2_book" -> CarriesBook(c, p, all)
          [] name = "get_candle_snapshot" -> CarriesCandles(c, p, all)
          [] name = "get_portfolio" -> CarriesPortfolio(c, p, all)
          [] OTHER -> CarriesList(c, p, all)

\* C8, as stated: for every read tool and every successful response the text
\* carries the whole payload: every record and every field, nothing dropped,
\* truncated or replaced by a default.
C8_TextCarriesWholePayload ==
    \A c \in CallIds : ReadAnswered(c) => Carries(c, TRUE)

\* C8, amended: get_all_mids carries the whole payload.  The other read tools
\* carry the number of records and, of each record listed, exactly the fields
\* the tool prints: px and sz of a book level; t, o, h, l, c, v of a candle;
\* coin, side, sz, px, oid of an open order; time, coin, side, sz, px, fee of a
\* fill; the four portfolio fields, an empty amount read as '0' and a zero time
\* as 'N/A'.  get_user_fills lists the first 20 fills only.  Every other field
\* of the payload is dropped.
C8_TextCarriesPrintedFields ==
    \A c \in CallIds : ReadAnswered(c) => Carries(c, FALSE)

C8_Witness ==
    \E c \in CallIds :
        /\ ReadAnswered(c)
        /\ calls[c].name = "get_user_fills"
        /\ Len(Payload(c)) > FillCap
        /\ ~IsErrorResult(c)

CancelCalls ==
    {c \in Active : calls[c].name = "cancel_order" /\ calls[c].args # Undefined}

\* C9: when cancel_order is called with both an orderId and a clientOrderId,
\* the single cancel entry sent is {a: assetIndex, o: orderId}, without c.
C9_OrderIdTakesPrecedence ==
    \A c \in CancelCalls :
        {"orderId", "clientOrderId"} \subseteq DOMAIN calls[c].args[1] =>
            \A i \in ExchangeRequests(c) :
                calls[c].requests[i].body.action.cancels =
                    << [a |-> calls[c].args[1].assetIndex, o |-> calls[c].args[1].orderId] >>

WellFormedCancel(action) ==
    /\ action.type = "cancel"
    /\ Len(action.cancels) = 1
    /\ DOMAIN action.cancels[1] \in {{"a", "o"}, {"a", "c"}}

\* C10: every cancel action cancel_order sends has exactly one entry, with the
\* asset index and exactly one of o and c; a call that supplies an orderId of
\* any numeric value or a clientOrderId builds such an action, and a call that
\* supplies neither fails with 'Either orderId or clientOrderId must be
\* provided' before anything is signed or sent.  (Stated of the calls that
\* pass the required assetIndex.)
C10_ExactlyOneId ==
    \A c \in {d \in CancelCalls : "assetIndex" \in DOMAIN calls[d].args[1]} :
        LET supplied == DOMAIN calls[c].args[1] \cap {"orderId", "clientOrderId"}
        IN  /\ \A i \in ExchangeRequests(c) :
                  WellFormedCancel(calls[c].requests[i].body.action)
            /\ (supplied # {} /\ wallet # Undefined) =>
                  /\ calls[c].action # Undefined
                  /\ WellFormedCancel(JsonAction(calls[c].action[1]))
            /\ supplied = {} =>
                  /\ NoTraffic(c)
                  /\ ErrorIs(c, "Either orderId or clientOrderId must be provided")

(***************************************************************************)
(* The orders the write tools build.                                       *)
(***************************************************************************)
PlaceCalls(name) ==
    {c \in Active : calls[c].name = name /\ calls[c].args # Undefined}

\* the order object of the README's example, for the arguments args
LimitOrder(args) ==
    [ a |-> args.assetIndex, b |-> args.isBuy, p |-> args.price, s |-> args.size,
      r |-> IF "reduceOnly" \in DOMAIN args THEN args.reduceOnly ELSE FALSE,
      t |-> [limit |-> [tif |-> args.timeInForce]] ]

WithCloid(order, args) == ("c" :> args.clientOrderId) @@ order

\* what the call signed and what it sent are the action of the one order
SignsAndSends(c, order) ==
    LET action == [type |-> "order", orders |-> <<order>>]
    IN  /\ calls[c].action # Undefined => JsonAction(calls[c].action[1]) = action
        /\ calls[c].signature # Undefined =>
              calls[c].signature[1].digest.action = action
        /\ \A i \in DOMAIN calls[c].requests :
              /\ calls[c].requests[i].url = "/exchange"
              /\ calls[c].requests[i].body.action = action
              /\ calls[c].requests[i].body.signature.digest.action = action
        /\ wallet # Undefined => calls[c].action # Undefined

\* C11, as stated: place_order builds the action of type 'order' with the one
\* order {a, b, p, s, r, t: {limit: {tif}}}, r false when reduceOnly is
\* omitted, and c present, equal to clientOrderId, exactly when a clientOrderId
\* was supplied; that action is what is signed and sent.
C11_LimitOrderShape ==
    \A c \in PlaceCalls("place_order") :
        LET args == calls[c].args[1]
        IN  SignsAndSends(c, IF "clientOrderId" \in DOMAIN args
                             THEN WithCloid(LimitOrder(args), args)
                             ELSE LimitOrder(args))

\* C11, amended: as above, but c is present exactly when a non-empty
\* clientOrderId was supplied; an empty string is treated as none.
C11_LimitOrderShapeNonEmptyCloid ==
    \A c \in PlaceCalls("place_order") :
        LET args == calls[c].args[1]
        IN  SignsAndSends(c, IF "clientOrderId" \in DOMAIN args /\ args.clientOrderId # ""
                             THEN WithCloid(LimitOrder(args), args)
                             ELSE LimitOrder(args))

C11_Witness ==
    \E c \in PlaceCalls("place_order") :
        /\ calls[c].pc = "done"
        /\ ~IsErrorResult(c)
        /\ DOMAIN calls[c].args[1] \cap {"reduceOnly", "clientOrderId"} = {"clientOrderId"}
        /\ calls[c].requests[1].body.action.orders[1].r = FALSE
        /\ calls[c].requests[1].body.action.orders[1].c = "my-order-1"

\* the orders of the requests call c posted to /exchange
OrdersSent(c) ==
    UNION { { calls[c].requests[i].body.action.orders[j] :
                j \in DOMAIN calls[c].requests[i].body.action.orders } :
            i \in {k \in ExchangeRequests(c) :
                     calls[c].requests[k].body.action.type = "order"} }

\* C12: every order sent has in t exactly one of limit and trigger: the orders
\* of place_order have t.limit and no t.trigger, the orders of
\* place_trigger_order have t.trigger = {triggerPx: triggerPrice, isMarket,
\* tpsl: triggerType} and no t.limit.
C12_LimitXorTrigger ==
    \A c \in Active : \A o \in OrdersSent(c) :
        /\ DOMAIN o.t \in {{"limit"}, {"trigger"}}
        /\ calls[c].name \in {"place_order", "place_trigger_order"}
        /\ calls[c].name = "place_order" => DOMAIN o.t = {"limit"}
        /\ calls[c].name = "place_trigger_order" =>
              o.t = [trigger |-> [ triggerPx |-> calls[c].args[1].triggerPrice,
                                   isMarket |-> calls[c].args[1].isMarket,
                                   tpsl |-> calls[c].args[1].triggerType ]]

C12_Witness ==
    \E c \in Done : \E o \in OrdersSent(c) :
        /\ calls[c].name = "place_trigger_order"
        /\ o.t.trigger.tpsl = "sl"
        /\ o.p = "0"
        /\ ~IsErrorResult(c)

\* the call got as far as invoking a method of the client
ClientInvoked(c) ==
    /\ calls[c].name \in ListTools
    /\ ~NoArguments(c)
    /\ ~NoUsableId(c)

\* the message of the failure the client method met
ClientFailure(c) ==
    IF KeylessWrite(c) THEN NoKeyMessage
    ELSE IF SigningFailed(c) THEN SignFailureMessage
    ELSE IF calls[c].response[1].bodyMessage # Undefined
         THEN calls[c].response[1].bodyMessage[1]
         ELSE calls[c].response[1].message

\* C13: a method of the client that was invoked and has settled has returned
\* (it never throws) a tagged result: {success: true, data} without error when
\* the remote answered, and {success: false, error} without data on a missing
\* key, a signing failure or a failed request, error being the message of the
\* remote's error body when there is one and the exception's message otherwise.
C13_TaggedResult ==
    \A c \in Done :
        ClientInvoked(c) =>
            /\ calls[c].returned # Undefined
            /\ LET r == calls[c].returned[1]
               IN  /\ DOMAIN r = {"success", "data", "error"}
                   /\ r.success <=> RemoteAnswered(c)
                   /\ r.success => r.data = calls[c].response[1].data /\ r.error = Undefined
                   /\ ~r.success => r.data = Undefined /\ r.error = Some(ClientFailure(c))

C13_Witness ==
    \E c \in Done :
        /\ calls[c].name = "get_all_mids"
        /\ RemoteFailed(c)
        /\ calls[c].response[1].bodyMessage = Some("Insufficient margin")
        /\ calls[c].returned = Some(Caught("Insufficient margin"))

(***************************************************************************)
(* Startup.                                                                *)
(***************************************************************************)
\* the configuration errors of the environment: a missing private key, a
\* private key that is not a 0x-prefixed key, a wallet address without 0x
KeyMissing == env.HYPERLIQUID_PRIVATE_KEY = Undefined

KeyMalformed == ~KeyMissing /\ env.HYPERLIQUID_PRIVATE_KEY # Some(GoodKey)

AddressMalformed == env.HYPERLIQUID_WALLET_ADDRESS = Some("WALLET")

ConfigurationError == KeyMissing \/ KeyMalformed \/ AddressMalformed

\* C14: a configuration error is not fatal, and a malformed key or address
\* is reported at startup: the client is constructed and the server serves,
\* and a read tool that the remote answers returns its text.  (The report of
\* a missing key is left out of the statement: what fails here fails the
\* claim whatever is reported for a missing key.)
C14_ConfigErrorsNonFatal ==
    ConfigurationError =>
        /\ (KeyMalformed \/ AddressMalformed) => configErrors # {}
        /\ phase = "serving"
        /\ \A c \in CallIds : ReadAnswered(c) => ~IsErrorResult(c)

\* C15: no call is retried: a call signs at most once and issues at most one
\* HTTP request; when signing fails it issues none and returns an error
\* result; when its request fails it returns an error result with that one
\* request issued.
C15_NoRetry ==
    \A c \in Active :
        /\ Len(calls[c].requests) <= 1
        /\ calls[c].signerCalls <= 1
        /\ SigningFailed(c) => calls[c].requests = <<>> /\ IsErrorResult(c)
        /\ calls[c].pc = "awaiting" => Len(calls[c].requests) = 1
        /\ RemoteFailed(c) =>
              /\ calls[c].pc = "done"
              /\ Len(calls[c].requests) = 1
              /\ IsErrorResult(c)

C15_Witness ==
    \E c \in Done :
        /\ calls[c].name = "cancel_order"
        /\ RemoteFailed(c)
        /\ Len(calls[c].requests) = 1
        /\ IsErrorResult(c)

(***************************************************************************)
(* Concurrent calls.  A call run alone is its handler applied to the       *)
(* client as constructed; what it does depends on its name, its arguments, *)
(* whether signing succeeded and what the remote answered.                 *)
(***************************************************************************)
AloneStart(c) ==
    IF HandlerOf(calls[c].name) = "none"
    THEN Throw("Unknown tool: " \o calls[c].name)
    ELSE HandlerStart(HandlerOf(calls[c].name), calls[c].args)

AloneRequests(c) ==
    LET st == AloneStart(c)
    IN  CASE st.kind = "throw" -> <<>>
          [] st.kind = "post" -> <<Request(st.url, st.body)>>
          [] st.kind = "sign" ->
                IF calls[c].pc = "signing" \/ SigningFailed(c) THEN <<>>
                ELSE <<Request("/exchange", ExchangeBody(st.action, st.nonce, st.signature))>>

AloneResult(c) ==
    LET st == AloneStart(c)
        h == HandlerOf(calls[c].name)
    IN  IF calls[c].pc # "done" THEN Undefined
        ELSE IF st.kind = "throw" THEN Some(CallToolReturn(Thrown(st.message)).result)
        ELSE IF SigningFailed(c)
             THEN Some(CallToolReturn(
                         HandlerFinish(h, calls[c].args, Caught(SignFailureMessage))).result)
             ELSE Some(CallToolReturn(
                         HandlerFinish(h, calls[c].args,
                                       ApiResponse(calls[c].response[1]))).result)

\* a request without its nonce, in the body and under the signature
ApartFromNonce(r) ==
    IF "nonce" \notin DOMAIN r.body THEN r
    ELSE [ base |-> r.base, url |-> r.url,
           body |-> [ action |-> r.body.action, vaultAddress |-> r.body.vaultAddress,
                      signer |-> r.body.signature.signer,
                      signedAction |-> r.body.signature.digest.action,
                      signedVault |-> r.body.signature.digest.vaultAddress ] ]

RequestsApartFromNonce(rs) == [i \in DOMAIN rs |-> ApartFromNonce(rs[i])]

SameCircumstances(c, d) ==
    /\ calls[c].name = calls[d].name
    /\ calls[c].args = calls[d].args
    /\ calls[c].pc = calls[d].pc
    /\ calls[c].response = calls[d].response
    /\ SigningFailed(c) <=> SigningFailed(d)

\* C16: under any interleaving of concurrent calls the client keeps the base
\* URL, the wallet address and the key it was constructed with, and every
\* call's requests (target, and body apart from the nonce) and result are those
\* of the same call run alone against the same answers; in particular two
\* calls in the same circumstances do and return the same.
C16_CallsIndependent ==
    /\ config = ClientConfig(getConfig(env))
    /\ baseURL = ClientConfig(getConfig(env)).apiUrl[1]
    /\ wallet = ClientWallet(getConfig(env))
    /\ \A c \in Active :
          /\ RequestsApartFromNonce(calls[c].requests)
                = RequestsApartFromNonce(AloneRequests(c))
          /\ calls[c].result = AloneResult(c)
    /\ \A c, d \in Active :
          SameCircumstances(c, d) =>
             /\ RequestsApartFromNonce(calls[c].requests)
                   = RequestsApartFromNonce(calls[d].requests)
             /\ calls[c].result = calls[d].result

C16_Witness ==
    \E c, d \in Active :
        /\ c < d
        /\ calls[c].pc = "awaiting"
        /\ calls[d].pc = "done"
        /\ calls[c].name = "place_order"
        /\ calls[d].name = "place_order"
        /\ calls[c].nonce = calls[d].nonce
        /\ ~IsErrorResult(d)

(***************************************************************************)
(* cancel_all_orders.  The exchange cancels the orders a cancel action     *)
(* names, by order id (o) or by client order id (c, cloid).                *)
(***************************************************************************)
\* the orders open for the account when the request arrives
AccountOpenOrders == {OpenOrder(1), OpenOrder(2)}

Names(entry, order) ==
    \/ "o" \in DOMAIN entry /\ entry.o = order.oid
    \/ "c" \in DOMAIN entry /\ "cloid" \in DOMAIN order /\ entry.c = order.cloid
    \/ "cloid" \in DOMAIN entry /\ "cloid" \in DOMAIN order /\ entry.cloid = order.cloid

\* the orders still open once the exchange has applied the action
Remaining(open, action) ==
    {o \in open : ~\E i \in DOMAIN action.cancels : Names(action.cancels[i], o)}

\* C17: the cancel request cancel_all_orders sends covers every order open
\* for the account: once the exchange has applied it with success, no order of
\* the account remains open.
C17_CancelAllCoversOpenOrders ==
    \A c \in Done :
        (calls[c].name = "cancel_all_orders" /\ RemoteAnswered(c)) =>
            /\ ~IsErrorResult(c)
            /\ Remaining(AccountOpenOrders, calls[c].requests[1].body.action) = {}

(***************************************************************************)
(* The account the read tools query.                                       *)
(***************************************************************************)
AccountTools ==
    {"get_open_orders", "get_user_fills", "get_user_fills_by_time", "get_portfolio"}

\* the address of a private key (ethers: wallet.address)
AddressOf(key) == "0xADDRESS-OF-" \o key

AccountCalls ==
    {c \in Active : calls[c].name \in AccountTools /\ calls[c].args # Undefined}

\* C18: with a private key configured and no HYPERLIQUID_WALLET_ADDRESS, an
\* account read tool called without a user argument queries the address
\* derived from the key: the user field of its /info request is that address.
C18_AddressDerivedFromKey ==
    \A c \in AccountCalls :
        ( /\ env.HYPERLIQUID_WALLET_ADDRESS = Undefined
          /\ wallet # Undefined
          /\ "user" \notin DOMAIN calls[c].args[1] ) =>
            /\ calls[c].requests # <<>>
            /\ "user" \in DOMAIN calls[c].requests[1].body
            /\ calls[c].requests[1].body.user = AddressOf(wallet[1])

(***************************************************************************)
(* The catalog and the dispatcher.                                         *)
(***************************************************************************)
\* the tools the specification names
NamedReadTools ==
    { "get_all_mids", "get_l2_book", "get_candle_snapshot", "get_open_orders",
      "get_user_fills", "get_user_fills_by_time", "get_portfolio" }

NamedWriteTools ==
    { "place_order", "place_trigger_order", "cancel_order", "cancel_all_orders" }

\* C19: the names the list-tools request returns are exactly the 7 read tools
\* and the 4 write tools; the dispatcher routes every listed name to a
\* handler and routes no other name.
C19_CatalogMatchesDispatcher ==
    catalog # Undefined =>
        /\ catalog[1] = NamedReadTools \cup NamedWriteTools
        /\ Cardinality(catalog[1]) = 11
        /\ \A n \in catalog[1] \cup UnknownNames \cup {r.name : r \in Requests} :
              HandlerOf(n) # "none" <=> n \in catalog[1]
        /\ \A c \in Active : calls[c].handlers # <<>> <=> calls[c].name \in catalog[1]

C19_Witness ==
    /\ catalog # Undefined
    /\ \E c \in Done :
          /\ calls[c].name = "cancel_all_orders"
          /\ calls[c].handlers = <<"handleCancelAllOrders">>

(***************************************************************************)
(* The bodies of the /info requests.                                       *)
(***************************************************************************)
InfoType ==
    [ get_all_mids |-> "allMids", get_l2_book |-> "l2Book",
      get_candle_snapshot |-> "candleSnapshot", get_open_orders |-> "openOrders",
      get_user_fills |-> "userFills", get_user_fills_by_time |-> "userFillsByTime",
      get_portfolio |-> "clearinghouseState" ]

ReadCalls ==
    {c \in Active : calls[c].name \in ReadTools /\ calls[c].requests # <<>>}

\* the user field of the body is u
UserIs(body, u) == "user" \in DOMAIN body /\ body.user = u

\* the user field is the configured wallet address, absent when none is set
UserIsConfigured(body) ==
    IF env.HYPERLIQUID_WALLET_ADDRESS = Undefined
    THEN "user" \notin DOMAIN body
    ELSE UserIs(body, env.HYPERLIQUID_WALLET_ADDRESS[1])

UserGiven(c) == calls[c].args # Undefined /\ "user" \in DOMAIN calls[c].args[1]

\* C20, as stated: each read tool posts to /info a body whose type is fixed by
\* the tool, and for the four account tools the user field is the user
\* argument when one is given and the configured wallet address otherwise.
C20_InfoBodies ==
    \A c \in ReadCalls :
        LET body == calls[c].requests[1].body
        IN  /\ calls[c].requests[1].url = "/info"
            /\ body.type = InfoType[calls[c].name]
            /\ calls[c].name \in AccountTools =>
                  IF UserGiven(c) THEN UserIs(body, calls[c].args[1].user)
                  ELSE UserIsConfigured(body)

\* C20, amended: as above, the user field being the user argument when a
\* non-empty one is given and the configured wallet address otherwise (absent
\* when none is configured).
C20_InfoBodiesNonEmptyUser ==
    \A c \in ReadCalls :
        LET body == calls[c].requests[1].body
        IN  /\ calls[c].requests[1].url = "/info"
            /\ body.type = InfoType[calls[c].name]
            /\ calls[c].name \in AccountTools =>
                  IF UserGiven(c) /\ calls[c].args[1].user # ""
                  THEN UserIs(body, calls[c].args[1].user)
                  ELSE UserIsConfigured(body)

C20_Witness ==
    \E c \in ReadCalls :
        /\ calls[c].pc = "done"
        /\ calls[c].name = "get_open_orders"
        /\ UserGiven(c)
        /\ config.walletAddress = Some("0xWALLET")
        /\ calls[c].requests[1].body = [type |-> "openOrders", user |-> "0xUSER"]

(***************************************************************************)
(* The fills listed.                                                       *)
(***************************************************************************)
FillsAnswered(name) == {c \in CallIds : ReadAnswered(c) /\ calls[c].name = name}

TextOf(c) == calls[c].result[1].content[1].text

\* the text is the header with the total count, then the lines of the first
\* n fills in the remote's order, then '... and more' exactly when more is set
ListsFirst(text, fills, n, more) ==
    /\ Len(text) = (IF more THEN 5 ELSE 4)
    /\ text[1] = "Trading History"
    /\ text[2] = Len(fills)
    /\ Len(text[4]) = n
    /\ \A i \in 1..n : text[4][i] = FillLine(fills[i])
    /\ more => text[5] = "... and more"

\* C21: get_user_fills lists the first 20 fills at most, in the remote's
\* order, under a header with the total count; it appends '... and more'
\* exactly when the remote returned more than 20 fills and returns 'No trading
\* history found.' exactly when it returned none.  get_user_fills_by_time
\* lists every fill.
C21_FillsCappedAtTwenty ==
    /\ \A c \in FillsAnswered("get_user_fills") :
          LET fills == Payload(c)
              n == IF Len(fills) < 20 THEN Len(fills) ELSE 20
          IN  /\ ~IsErrorResult(c)
              /\ Len(fills) = 0 <=> TextOf(c) = <<"No trading history found.">>
              /\ Len(fills) > 0 => ListsFirst(TextOf(c), fills, n, Len(fills) > 20)
    /\ \A c \in FillsAnswered("get_user_fills_by_time") :
          LET fills == Payload(c)
          IN  /\ ~IsErrorResult(c)
              /\ Len(fills) > 0 => ListsFirst(TextOf(c), fills, Len(fills), FALSE)

C21_Witness ==
    \E c \in FillsAnswered("get_user_fills") :
        /\ Len(Payload(c)) > 20
        /\ Len(TextOf(c)[4]) = 20
        /\ TextOf(c)[2] = Len(Payload(c))
        /\ TextOf(c)[5] = "... and more"

(***************************************************************************)
(* The base URL.                                                           *)
(***************************************************************************)
UrlOfFlag ==
    IF env.HYPERLIQUID_TESTNET = Some("true")
    THEN "https://api.hyperliquid-testnet.xyz"
    ELSE "https://api.hyperliquid.xyz"

\* C22: the base URL of the client, and of every request sent, is the testnet
\* URL exactly when HYPERLIQUID_TESTNET is the string 'true' and the mainnet
\* URL otherwise, whatever HYPERLIQUID_API_URL holds, at every moment after
\* the client is constructed.
C22_BaseUrlByTestnetFlag ==
    /\ baseURL = UrlOfFlag
    /\ config.apiUrl = Some(UrlOfFlag)
    /\ \A c \in CallIds : \A i \in DOMAIN calls[c].requests :
          calls[c].requests[i].base = UrlOfFlag

C22_Witness ==
    /\ env.HYPERLIQUID_API_URL = Some("https://custom.example")
    /\ env.HYPERLIQUID_TESTNET = Some("false")
    /\ \E c \in Done :
          /\ calls[c].name = "place_order"
          /\ calls[c].requests # <<>>
          /\ calls[c].requests[1].base = "https://api.hyperliquid.xyz"

=============================================================================
